---- MODULE Spec2Model ----
(***************************************************************************)
(* Request pipeline of the Hauge Restaurant API: the token codec           *)
(* (utils/jwt.ts), the authentication middleware                           *)
(* (middleware/auth-validation.ts), the zod validators                     *)
(* (middleware/user-validation) and the /users and /posts route handlers.  *)
(*                                                                         *)
(* Strings are tuples of one-character strings.  Time is counted in hours. *)
(* One request is in flight at a time; every middleware and every route    *)
(* handler is one action.                                                  *)
(***************************************************************************)
EXTENDS Integers, Sequences, FiniteSets, TLC

VARIABLES
    users,      \* rows of the users table
    nextId,     \* AUTO_INCREMENT counter of the users table
    posts,      \* rows of the posts table
    clock,      \* Date.now(), in hours
    dbUp,       \* whether pool.execute can reach the database
    req,        \* the request in flight and its position in the route's chain
    res,        \* the response sent for it (status 0: none yet)
    jwtRes,     \* result of the last direct verifyToken call
    vRes,       \* outcome of the last direct run of the two body validators
    gone        \* history: ids whose row a DELETE request has removed

vars == <<users, nextId, posts, clock, dbUp, req, res, jwtRes, vRes, gone>>

--------------------------------------------------------------------------
(* Bounds *)

MaxId == 2            \* users ids 1..MaxId can be inserted
MaxClock == 25        \* the clock stops here
TickStep == 12        \* hours that pass between two requests
ExtraLen == 1         \* usernames up to MaxUsernameLen + ExtraLen are tried

(* Program constants *)

ExpiresIn == 24       \* jwt.sign(..., {expiresIn: "24h"})
BearerLen == 7        \* authHeader.substring(7)
MinUsernameLen == 2   \* .min(2, ...)
MaxUsernameLen == 50  \* .max(50, ...)

--------------------------------------------------------------------------
(* Strings *)

Rep(c, n) == [i \in 1..n |-> c]

Digits == {"0", "1", "2", "3", "4", "5", "6", "7", "8", "9"}
Letters == {"a", "b", "c", "o", "x"}

DigitVal(c) ==
    CASE c = "0" -> 0 [] c = "1" -> 1 [] c = "2" -> 2 [] c = "3" -> 3
      [] c = "4" -> 4 [] c = "5" -> 5 [] c = "6" -> 6 [] c = "7" -> 7
      [] c = "8" -> 8 [] c = "9" -> 9

\* String.prototype.startsWith
startsWith(s, p) == Len(s) >= Len(p) /\ SubSeq(s, 1, Len(p)) = p

\* String.prototype.substring(n)
substring(s, n) == SubSeq(s, n + 1, Len(s))

\* positions of character c in s
Positions(s, c) == {i \in 1..Len(s) : s[i] = c}

\* last index of s holding c (0 when none)
LastPosition(s, c) ==
    IF Positions(s, c) = {} THEN 0
    ELSE CHOOSE i \in Positions(s, c) : \A j \in Positions(s, c) : j <= i

RECURSIVE DigitsToNat(_)
DigitsToNat(s) ==
    IF s = <<>> THEN 0
    ELSE DigitsToNat(SubSeq(s, 1, Len(s) - 1)) * 10 + DigitVal(s[Len(s)])

RECURSIVE Trim(_)
\* String.prototype.trim, as Number() applies it to its argument
Trim(s) ==
    IF s = <<>> THEN s
    ELSE IF s[1] = " " THEN Trim(SubSeq(s, 2, Len(s)))
    ELSE IF s[Len(s)] = " " THEN Trim(SubSeq(s, 1, Len(s) - 1))
    ELSE s

AllIn(s, S) == \A i \in 1..Len(s) : s[i] \in S

NaN == [nan |-> TRUE, int |-> 0, frac |-> <<>>]

\* decimal literal without sign: digits, optionally "." and digits
UnsignedNumber(t, sign) ==
    LET dots == Positions(t, ".")
        d    == LastPosition(t, ".")
        ip   == IF d = 0 THEN t ELSE SubSeq(t, 1, d - 1)
        fp   == IF d = 0 THEN <<>> ELSE SubSeq(t, d + 1, Len(t))
        nz   == LastPosition([i \in 1..Len(fp) |-> IF fp[i] = "0" THEN "0" ELSE "n"], "n")
    IN  IF Cardinality(dots) > 1 \/ ~AllIn(ip, Digits) \/ ~AllIn(fp, Digits)
           \/ (ip = <<>> /\ fp = <<>>)
        THEN NaN
        ELSE [nan |-> FALSE, int |-> sign * DigitsToNat(ip), frac |-> SubSeq(fp, 1, nz)]

\* Number(req.params.id): whitespace trimmed, "" is 0, a decimal literal with an
\* optional sign is its value, anything else is NaN.  (Hexadecimal, exponent and
\* Infinity literals are outside the alphabet of the requests.)
Number(s) ==
    LET t == Trim(s)
    IN  IF t = <<>> THEN [nan |-> FALSE, int |-> 0, frac |-> <<>>]
        ELSE IF t[1] = "-" THEN UnsignedNumber(SubSeq(t, 2, Len(t)), -1)
        ELSE IF t[1] = "+" THEN UnsignedNumber(SubSeq(t, 2, Len(t)), 1)
        ELSE UnsignedNumber(t, 1)

isNaN(n) == n.nan

\* n === k for an integer k
NumberIs(n, k) == ~n.nan /\ n.frac = <<>> /\ n.int = k

--------------------------------------------------------------------------
(* Token codec: utils/jwt.ts over jsonwebtoken *)

\* jwt.sign({userId}, JWT_SECRET, {expiresIn: "24h"}) at time now.  A token
\* string is the text in front of a signed part (at most one): a well-formed
\* token has no other text and one signed part.
jwtSign(userId, now) ==
    [userId |-> userId, iat |-> now, exp |-> now + ExpiresIn, sigOK |-> TRUE]

generateToken(userId, now) == [text |-> <<>>, signed |-> <<jwtSign(userId, now)>>]

\* jwt.verify(token, JWT_SECRET) at time now: what it throws ("" when nothing)
\* and the decoded payload.
jwtVerify(token, now) ==
    IF token.text # <<>> \/ Len(token.signed) # 1
    THEN [thrown |-> "JsonWebTokenError", payload |-> <<>>]
    ELSE IF ~token.signed[1].sigOK
    THEN [thrown |-> "JsonWebTokenError", payload |-> <<>>]
    ELSE IF now >= token.signed[1].exp
    THEN [thrown |-> "TokenExpiredError", payload |-> <<>>]
    ELSE [thrown |-> "", payload |-> <<[userId |-> token.signed[1].userId]>>]

null == <<>>

\* verifyToken that ignores the expiry
verifyTokenIgnoreExp(token, now) ==
    LET r == jwtVerify(token, 0)
    IN  IF r.thrown # "" THEN [threw |-> FALSE, value |-> null]
        ELSE [threw |-> FALSE, value |-> r.payload]

\* verifyToken: try { return jwt.verify(...) } catch (error) { return null }
\* value is null (<<>>) or a one-element tuple holding the payload.
verifyToken(token, now) ==
    LET r == jwtVerify(token, now)
    IN  IF r.thrown # "" THEN [threw |-> FALSE, value |-> null]
        ELSE [threw |-> FALSE, value |-> r.payload]

--------------------------------------------------------------------------
(* Validators: the zod schemas of middleware/user-validation *)

\* /^\d+$/ matched from position i on
RECURSIVE DigitsToEnd(_, _)
DigitsToEnd(s, i) ==
    IF i > Len(s) THEN TRUE
    ELSE IF s[i] \in Digits THEN DigitsToEnd(s, i + 1)
    ELSE FALSE

\* a matcher without the anchors: some digit anywhere
userIdRegexUnanchored(s) == \E i \in 1..Len(s) : s[i] \in Digits

\* /^\d+$/.test(s)
userIdRegex(s) == Len(s) >= 1 /\ DigitsToEnd(s, 1)

\* userIdSchema.safeParse(req.params): the issues' messages
userIdSchema(id) ==
    IF userIdRegex(id) THEN <<>> ELSE <<"ID must be a positive number">>

AlphaNum == Letters \cup Digits
LocalChars == AlphaNum \cup {"_", "'", "+", "-", "."}
LocalLast == AlphaNum \cup {"_", "+", "-"}
DomainChars == AlphaNum \cup {"-", "."}

\* zod's email pattern
\* /^(?!\.)(?!.*\.\.)([A-Za-z0-9_'+\-\.]*)[A-Za-z0-9_+-]@([A-Za-z0-9][A-Za-z0-9\-]*\.)+[A-Za-z]{2,}$/
isEmail(s) ==
    /\ Cardinality(Positions(s, "@")) = 1
    /\ LET a     == LastPosition(s, "@")
           local == SubSeq(s, 1, a - 1)
           dom   == SubSeq(s, a + 1, Len(s))
           d     == LastPosition(dom, ".")
           tld   == SubSeq(dom, d + 1, Len(dom))
           starts == {1} \cup {p + 1 : p \in Positions(dom, ".") \ {d}}
       IN  /\ Len(local) >= 1
           /\ AllIn(local, LocalChars)
           /\ local[Len(local)] \in LocalLast
           /\ s[1] # "."
           /\ \A i \in 1..(Len(s) - 1) : ~(s[i] = "." /\ s[i + 1] = ".")
           /\ AllIn(dom, DomainChars)
           /\ d >= 2
           /\ \A p \in starts : dom[p] \in AlphaNum
           /\ Len(tld) >= 2
           /\ AllIn(tld, Letters)

\* z.string().min(2, ...).max(50, ...) on a username that is present
usernameIssues(f, tooLong) ==
    IF f.kind # "string" THEN <<"Invalid input: expected string">>
    ELSE IF Len(f.val) < MinUsernameLen THEN <<"Username must be at least 2 characters">>
    ELSE IF Len(f.val) > MaxUsernameLen THEN <<tooLong>>
    ELSE <<>>

\* requiredUserDataSchema.safeParse(req.body): the issues' messages
requiredUserDataSchema(body) ==
    usernameIssues(body.username, "Username must not exceed 50 characters")
    \o (IF body.email.kind = "string" /\ isEmail(body.email.val) THEN <<>>
        ELSE <<"Email must be a valid email">>)

\* partialUserDataSchema.safeParse(req.body): username as above but optional,
\* email z.string(...).optional()
partialUserDataSchema(body) ==
    (IF body.username.kind = "absent" THEN <<>>
     ELSE usernameIssues(body.username, "Username must be at least 50 characters"))
    \o (IF body.email.kind = "other" THEN <<"Email must be a valid email">> ELSE <<>>)

--------------------------------------------------------------------------
(* Requests *)

Str(kind, val) == [kind |-> kind, val |-> val]
Absent == Str("absent", <<>>)
NotAString == Str("other", <<>>)

NULL == <<"N", "U", "L", "L">>
Hash == <<"$", "2", "b", "$">>

Bearer == <<"B", "e", "a", "r", "e", "r", " ">>
Basic == <<"B", "a", "s", "i", "c", " ">>

\* the times at which the clock is read
Times == {t \in 0..MaxClock : t % TickStep = 0}

UserIds == 1..MaxId

\* Authorization headers: the text in front of a signed JWT (at most one).  A JWT
\* holds no space, so "Bearer " can only be matched by the text.
NoHeader == [present |-> FALSE, text |-> <<>>, signed |-> <<>>]
Header(text, signed) == [present |-> TRUE, text |-> text, signed |-> signed]

\* the JWTs a client can hold at time now: issued by generateToken at or before
\* now, or such a token with its payload or signature altered
IssuedTokens(now) ==
    {generateToken(1, t) : t \in {x \in Times : x <= now}}
    \cup {generateToken(u, now) : u \in UserIds}
TamperedTokens(now) ==
    {[text |-> <<>>, signed |-> <<[jwtSign(u, now) EXCEPT !.sigOK = FALSE]>>] : u \in {1}}

Headers(now) ==
    {NoHeader, Header(<<>>, <<>>), Header(Bearer \o <<"x">>, <<>>)}
    \cup {Header(Basic, t.signed) : t \in IssuedTokens(now) \cap {generateToken(1, now)}}
    \cup {Header(Bearer, t.signed) : t \in IssuedTokens(now) \cup TamperedTokens(now)}

\* route parameters :id (a path segment is never empty)
IdStrings ==
    {<<"1">>, <<"2">>, <<"0", "1">>, <<"-", "1">>, <<"1", ".", "5">>, <<" ", "1">>, <<"x">>}

ValidEmail == <<"a", "@", "b", ".", "c", "o">>
Usernames == {Absent, Str("string", <<"a">>), Str("string", <<"a", "b">>)}
Emails == {Absent, Str("string", ValidEmail), Str("string", <<"x">>), Str("string", <<>>)}
Bodies == [username : Usernames, email : Emails]
NoBody == [username |-> Absent, email |-> Absent]

Routes ==
    {"POST /users", "GET /users", "GET /users/:id", "PUT /users/:id",
     "PATCH /users/:id", "DELETE /users/:id", "GET /users/:id/posts",
     "GET /users/:id/posts-with-user", "GET /posts"}

\* chains that validate before they authenticate
ChainValidateFirst(route) ==
    CASE route = "POST /users" -> <<"validateRequiredUserData", "handler">>
      [] route = "GET /users/:id" -> <<"validateUserId", "handler">>
      [] route = "PUT /users/:id" ->
            <<"validateUserId", "validateRequiredUserData", "authenticateToken", "handler">>
      [] route = "PATCH /users/:id" ->
            <<"validateUserId", "validatePartialUserData", "authenticateToken", "handler">>
      [] route = "DELETE /users/:id" -> <<"validateUserId", "authenticateToken", "handler">>
      [] OTHER -> <<"handler">>

\* the middleware chain each route is registered with
Chain(route) ==
    CASE route = "POST /users" -> <<"validateRequiredUserData", "handler">>
      [] route = "GET /users/:id" -> <<"validateUserId", "handler">>
      [] route = "PUT /users/:id" ->
            <<"authenticateToken", "validateUserId", "validateRequiredUserData", "handler">>
      [] route = "PATCH /users/:id" ->
            <<"authenticateToken", "validateUserId", "validatePartialUserData", "handler">>
      [] route = "DELETE /users/:id" -> <<"authenticateToken", "validateUserId", "handler">>
      [] OTHER -> <<"handler">>

HasAuth(route) == route \in {"PUT /users/:id", "PATCH /users/:id", "DELETE /users/:id"}
HasId(route) ==
    route \in {"GET /users/:id", "PUT /users/:id", "PATCH /users/:id", "DELETE /users/:id",
               "GET /users/:id/posts", "GET /users/:id/posts-with-user"}
HasBody(route) == route \in {"POST /users", "PUT /users/:id", "PATCH /users/:id"}

NoResponse ==
    [status |-> 0, key |-> "", text |-> "", details |-> <<>>, rows |-> {}, list |-> <<>>]

Json(status, key, text) == [NoResponse EXCEPT !.status = status, !.key = key, !.text = text]

ValidationFailed(issues) ==
    [Json(400, "error", "Validation failed") EXCEPT !.details = issues]

InternalServerError == Json(500, "message", "Internal server error")

\* Express's own error handler, for an error no handler caught
FrameworkError == Json(500, "html", "Error")

Idle ==
    [route |-> "", header |-> NoHeader, id |-> <<>>, body |-> NoBody, user |-> <<>>,
     stage |-> 0, pc |-> "idle", storageOps |-> 0, threw |-> FALSE]

\* the table a deployment starts from: empty, or one registered user
InitialUsers ==
    {{}, {[id |-> 1, username |-> <<"c", "c">>, email |-> <<"c", "@", "c", ".", "c", "o">>,
           password |-> Hash]}}

InitialPosts ==
    {[id |-> 1, title |-> <<"a">>, content |-> <<"a">>, user_id |-> 1, created_at |-> 3],
     [id |-> 2, title |-> <<"b">>, content |-> <<"b">>, user_id |-> 1, created_at |-> 7],
     [id |-> 3, title |-> <<"c">>, content |-> <<"c">>, user_id |-> 2, created_at |-> 5]}

Init ==
    /\ users \in InitialUsers
    /\ nextId = Cardinality(users) + 1
    /\ posts = InitialPosts
    /\ clock = 0
    /\ dbUp = TRUE
    /\ req = Idle
    /\ res = NoResponse
    /\ jwtRes = [token |-> [text |-> <<>>, signed |-> <<>>], at |-> 0, threw |-> FALSE,
                 value |-> null]
    /\ vRes = [body |-> [username |-> Str("string", <<"a", "b">>),
                         email |-> Str("string", ValidEmail)],
               required |-> <<>>, partial |-> <<>>]
    /\ gone = {}

\* a client sends a request; the previous one has ended
NewRequest(route, header, id, body) ==
    /\ req.pc = "idle"
    /\ route = "POST /users" => nextId <= MaxId
    /\ req' = [Idle EXCEPT !.route = route, !.header = header, !.id = id, !.body = body,
                           !.stage = 1, !.pc = "run"]
    /\ res' = NoResponse
    /\ UNCHANGED <<users, nextId, posts, clock, dbUp, jwtRes, vRes, gone>>

At(name) == req.pc = "run" /\ Chain(req.route)[req.stage] = name

\* res.status(...).json(...): the request ends
Respond(r) ==
    /\ res' = r
    /\ req' = [req EXCEPT !.pc = "done"]

\* next()
CallNext == req' = [req EXCEPT !.stage = req.stage + 1] /\ res' = res

\* authenticateToken without the check of the "Bearer " prefix
authenticateNoScheme(header, now) ==
    IF ~header.present \/ (header.text = <<>> /\ header.signed = <<>>)
    THEN [next |-> FALSE, res |-> Json(401, "error", "Access token required"), user |-> <<>>]
    ELSE LET token == [text |-> substring(header.text, BearerLen), signed |-> header.signed]
             v == verifyToken(token, now)
         IN  IF v.value = null
             THEN [next |-> FALSE, res |-> Json(403, "error", "Invalid or expired token"),
                   user |-> <<>>]
             ELSE [next |-> TRUE, res |-> NoResponse, user |-> <<[id |-> v.value[1].userId]>>]

\* the outcome of authenticateToken for a header at time now
authenticate(header, now) ==
    IF ~header.present \/ (header.text = <<>> /\ header.signed = <<>>)
    THEN [next |-> FALSE, res |-> Json(401, "error", "Access token required"), user |-> <<>>]
    ELSE IF ~startsWith(header.text, Bearer)
    THEN [next |-> FALSE, res |-> Json(401, "error", "Token must be in format: Bearer <token>"),
          user |-> <<>>]
    ELSE LET token == [text |-> substring(header.text, BearerLen), signed |-> header.signed]
             v == verifyToken(token, now)
         IN  IF v.threw
             THEN [next |-> FALSE, res |-> FrameworkError, user |-> <<>>]
             ELSE IF v.value = null
             THEN [next |-> FALSE, res |-> Json(403, "error", "Invalid or expired token"),
                   user |-> <<>>]
             ELSE [next |-> TRUE, res |-> NoResponse, user |-> <<[id |-> v.value[1].userId]>>]

authenticateToken ==
    /\ At("authenticateToken")
    /\ LET a == authenticate(req.header, clock)
       IN  IF a.next
           THEN /\ req' = [req EXCEPT !.user = a.user, !.stage = req.stage + 1]
                /\ res' = res
           ELSE Respond(a.res)
    /\ UNCHANGED <<users, nextId, posts, clock, dbUp, jwtRes, vRes, gone>>

validateUserId ==
    /\ At("validateUserId")
    /\ IF userIdSchema(req.id) # <<>>
       THEN Respond(ValidationFailed(userIdSchema(req.id)))
       ELSE CallNext
    /\ UNCHANGED <<users, nextId, posts, clock, dbUp, jwtRes, vRes, gone>>

validateRequiredUserData ==
    /\ At("validateRequiredUserData")
    /\ IF requiredUserDataSchema(req.body) # <<>>
       THEN Respond(ValidationFailed(requiredUserDataSchema(req.body)))
       ELSE CallNext
    /\ UNCHANGED <<users, nextId, posts, clock, dbUp, jwtRes, vRes, gone>>

validatePartialUserData ==
    /\ At("validatePartialUserData")
    /\ IF partialUserDataSchema(req.body) # <<>>
       THEN Respond(ValidationFailed(partialUserDataSchema(req.body)))
       ELSE CallNext
    /\ UNCHANGED <<users, nextId, posts, clock, dbUp, jwtRes, vRes, gone>>

--------------------------------------------------------------------------
(* Route handlers.  pool.execute succeeds while the database is up and may
   throw while it is down. *)

ExecuteOutcomes == IF dbUp THEN {TRUE} ELSE {TRUE, FALSE}

Handler(route) == At("handler") /\ req.route = route

\* the handler ends with response r after ops calls of pool.execute
Finish(r, ops, threw) ==
    /\ res' = r
    /\ req' = [req EXCEPT !.pc = "done", !.storageOps = ops, !.threw = threw]

UserNotFound == Json(404, "message", "User not found")
NotOwner == Json(403, "error", "Users can only update their own account")

\* the {id, username, email} object the handlers build
UserObject(id, username, email) == [id |-> id, username |-> username, email |-> email]

\* an ownership check that lets every authenticated user through
isOwnerAnyUser(user, userId) == Len(user) = 1

\* !(req.user!.id !== userId)
isOwner(user, userId) == NumberIs(userId, user[1].id)

\* WHERE id = ? (a NaN parameter matches no row)
WhereId(table, userId) == {u \in table : NumberIs(userId, u.id)}

\* a handler that never takes the "no row affected" branch
NoRowAffectedNever(table, userId) == FALSE

\* result.affectedRows === 0 (mysql2 counts the rows the WHERE clause matched)
NoRowAffected(table, userId) == Cardinality(WhereId(table, userId)) = 0

\* a truthy body field: a non-empty string (no other kind passes the validators)
Truthy(f) == f.kind = "string" /\ f.val # <<>>

\* router.post("/")
createUser ==
    /\ Handler("POST /users")
    /\ \E ok \in ExecuteOutcomes :
        IF ok
        THEN /\ users' = users \cup {[id |-> nextId, username |-> req.body.username.val,
                                      email |-> req.body.email.val, password |-> NULL]}
             /\ nextId' = nextId + 1
             /\ Finish([Json(201, "", "") EXCEPT
                           !.rows = {UserObject(nextId, req.body.username.val,
                                                req.body.email.val)}], 1, FALSE)
        ELSE /\ Finish(InternalServerError, 1, TRUE)
             /\ UNCHANGED <<users, nextId>>
    /\ UNCHANGED <<posts, clock, dbUp, jwtRes, vRes, gone>>

\* router.get("/")
listUsers ==
    /\ Handler("GET /users")
    /\ \E ok \in ExecuteOutcomes :
        IF ok
        THEN Finish([Json(200, "", "") EXCEPT !.rows = users], 1, FALSE)
        ELSE Finish(InternalServerError, 1, TRUE)
    /\ UNCHANGED <<users, nextId, posts, clock, dbUp, jwtRes, vRes, gone>>

\* router.get("/:id")
getUser ==
    /\ Handler("GET /users/:id")
    /\ LET userId == Number(req.id)
       IN  \E ok \in ExecuteOutcomes :
            IF ~ok THEN Finish(InternalServerError, 1, TRUE)
            ELSE IF WhereId(users, userId) = {} THEN Finish(UserNotFound, 1, FALSE)
            ELSE Finish([Json(200, "", "") EXCEPT !.rows = WhereId(users, userId)], 1, FALSE)
    /\ UNCHANGED <<users, nextId, posts, clock, dbUp, jwtRes, vRes, gone>>

\* router.put("/:id")
putUser ==
    /\ Handler("PUT /users/:id")
    /\ LET userId   == Number(req.id)
           username == req.body.username.val
           email    == req.body.email.val
       IN  IF ~isOwner(req.user, userId)
           THEN Finish(NotOwner, 0, FALSE) /\ users' = users
           ELSE \E ok \in ExecuteOutcomes :
                IF ~ok THEN Finish(InternalServerError, 1, TRUE) /\ users' = users
                ELSE IF NoRowAffected(users, userId)
                THEN Finish(UserNotFound, 1, FALSE) /\ users' = users
                ELSE /\ users' = {IF u \in WhereId(users, userId)
                                  THEN [u EXCEPT !.username = username, !.email = email]
                                  ELSE u : u \in users}
                     /\ Finish([Json(200, "", "") EXCEPT
                                   !.rows = {UserObject(userId.int, username, email)}],
                               1, FALSE)
    /\ UNCHANGED <<nextId, posts, clock, dbUp, jwtRes, vRes, gone>>

\* router.patch("/:id"): an UPDATE whose SET list is empty is a syntax error,
\* which pool.execute throws
patchUser ==
    /\ Handler("PATCH /users/:id")
    /\ LET userId == Number(req.id)
           fieldsToUpdate ==
               (IF Truthy(req.body.username) THEN <<"username">> ELSE <<>>)
               \o (IF Truthy(req.body.email) THEN <<"email">> ELSE <<>>)
           patched(u) ==
               [u EXCEPT
                  !.username = IF Truthy(req.body.username) THEN req.body.username.val ELSE @,
                  !.email = IF Truthy(req.body.email) THEN req.body.email.val ELSE @]
       IN  IF ~isOwner(req.user, userId)
           THEN Finish(NotOwner, 0, FALSE) /\ users' = users
           ELSE \E ok \in ExecuteOutcomes, ok2 \in ExecuteOutcomes :
                IF ~ok \/ fieldsToUpdate = <<>>
                THEN Finish(InternalServerError, 1, TRUE) /\ users' = users
                ELSE IF NoRowAffected(users, userId)
                THEN Finish(UserNotFound, 1, FALSE) /\ users' = users
                ELSE /\ users' = {IF u \in WhereId(users, userId) THEN patched(u) ELSE u :
                                  u \in users}
                     /\ IF ok2
                        THEN Finish([Json(200, "", "") EXCEPT
                                        !.rows = WhereId(users', userId)], 2, FALSE)
                        ELSE Finish(InternalServerError, 2, TRUE)
    /\ UNCHANGED <<nextId, posts, clock, dbUp, jwtRes, vRes, gone>>

\* router.delete("/:id")
deleteUser ==
    /\ Handler("DELETE /users/:id")
    /\ LET userId == Number(req.id)
       IN  IF ~isOwner(req.user, userId)
           THEN Finish(NotOwner, 0, FALSE) /\ UNCHANGED <<users, gone>>
           ELSE \E ok \in ExecuteOutcomes :
                IF ~ok THEN Finish(InternalServerError, 1, TRUE) /\ UNCHANGED <<users, gone>>
                ELSE IF NoRowAffected(users, userId)
                THEN Finish(UserNotFound, 1, FALSE) /\ UNCHANGED <<users, gone>>
                ELSE /\ users' = users \ WhereId(users, userId)
                     /\ gone' = gone \cup {u.id : u \in WhereId(users, userId)}
                     /\ Finish(Json(204, "", ""), 1, FALSE)
    /\ UNCHANGED <<nextId, posts, clock, dbUp, jwtRes, vRes>>

\* every order in which the rows of S can be returned
Listings(S) == {q \in [1..Cardinality(S) -> S] : \A x \in S : \E i \in DOMAIN q : q[i] = x}

\* ORDER BY posts.created_at DESC
OrderedDesc(q) == \A i, j \in DOMAIN q : i < j => q[i].created_at >= q[j].created_at

\* posts INNER JOIN users ON posts.user_id = users.id
PostsWithUser ==
    {[id |-> p.id, title |-> p.title, content |-> p.content, user_id |-> p.user_id,
      created_at |-> p.created_at, username |-> u.username, email |-> u.email] :
        <<p, u>> \in {pu \in posts \X users : pu[1].user_id = pu[2].id}}

\* router.get("/:id/posts")
getUserPosts ==
    /\ Handler("GET /users/:id/posts")
    /\ LET userId == Number(req.id)
       IN  IF isNaN(userId)
           THEN Finish(Json(400, "error", "Invalid user ID"), 0, FALSE)
           ELSE \E ok \in ExecuteOutcomes :
                IF ~ok THEN Finish(Json(500, "error", "Failed to fetch user posts"), 1, TRUE)
                ELSE \E q \in {l \in Listings({p \in posts : NumberIs(userId, p.user_id)}) :
                                 OrderedDesc(l)} :
                        Finish([Json(200, "", "") EXCEPT !.list = q], 1, FALSE)
    /\ UNCHANGED <<users, nextId, posts, clock, dbUp, jwtRes, vRes, gone>>

\* router.get("/:id/posts-with-user"): no try/catch and no ORDER BY.  When
\* pool.execute throws, the async handler's promise rejects: Express 5 passes the
\* rejection to its error handler, Express 4 leaves the request without a response.
getUserPostsWithUser ==
    /\ Handler("GET /users/:id/posts-with-user")
    /\ LET userId == Number(req.id)
       IN  \E ok \in ExecuteOutcomes :
            IF ~ok
            THEN \E forwarded \in BOOLEAN :
                    IF forwarded
                    THEN Finish(FrameworkError, 1, TRUE)
                    ELSE /\ res' = res
                         /\ req' = [req EXCEPT !.pc = "unhandled", !.storageOps = 1,
                                               !.threw = TRUE]
            ELSE \E q \in Listings({p \in PostsWithUser : NumberIs(userId, p.user_id)}) :
                    Finish([Json(200, "", "") EXCEPT !.list = q], 1, FALSE)
    /\ UNCHANGED <<users, nextId, posts, clock, dbUp, jwtRes, vRes, gone>>

\* posts.ts router.get("/")
getPosts ==
    /\ Handler("GET /posts")
    /\ \E ok \in ExecuteOutcomes :
        IF ~ok THEN Finish(Json(500, "error", "Failed to fetch posts"), 1, TRUE)
        ELSE \E q \in {l \in Listings(PostsWithUser) : OrderedDesc(l)} :
                Finish([Json(200, "", "") EXCEPT !.list = q], 1, FALSE)
    /\ UNCHANGED <<users, nextId, posts, clock, dbUp, jwtRes, vRes, gone>>

--------------------------------------------------------------------------
(* Environment *)

\* the client has its response, or gives up waiting for one
Deliver ==
    /\ req.pc \in {"done", "unhandled"}
    /\ req' = Idle
    /\ res' = NoResponse
    /\ UNCHANGED <<users, nextId, posts, clock, dbUp, jwtRes, vRes, gone>>

\* time passes between two requests
Tick(d) ==
    /\ req.pc = "idle"
    /\ clock + d <= MaxClock
    /\ clock' = clock + d
    /\ UNCHANGED <<users, nextId, posts, dbUp, req, res, jwtRes, vRes, gone>>

\* the database becomes unreachable
DbFail ==
    /\ dbUp
    /\ dbUp' = FALSE
    /\ UNCHANGED <<users, nextId, posts, clock, req, res, jwtRes, vRes, gone>>

DbRecover ==
    /\ ~dbUp
    /\ dbUp' = TRUE
    /\ UNCHANGED <<users, nextId, posts, clock, req, res, jwtRes, vRes, gone>>

Send ==
    /\ req.pc = "idle"
    /\ \E route \in Routes :
       \E header \in IF HasAuth(route) THEN Headers(clock) ELSE {NoHeader} :
       \E id \in IF HasId(route) THEN IdStrings ELSE {<<>>} :
       \E body \in IF HasBody(route) THEN Bodies ELSE {NoBody} :
           NewRequest(route, header, id, body)

Next ==
    \/ Send
    \/ authenticateToken
    \/ validateUserId
    \/ validateRequiredUserData
    \/ validatePartialUserData
    \/ createUser
    \/ listUsers
    \/ getUser
    \/ putUser
    \/ patchUser
    \/ deleteUser
    \/ getUserPosts
    \/ getUserPostsWithUser
    \/ getPosts
    \/ Deliver
    \/ Tick(TickStep)

Spec == Init /\ [][Next]_vars

\* the same system with a database that can fail
NextFault == Next \/ DbFail \/ DbRecover

SpecFault == Init /\ [][NextFault]_vars

--------------------------------------------------------------------------
(* The token codec on its own: tokens are verified as the clock advances *)

\* token strings handed to verifyToken at time now: every token generateToken
\* has issued, such tokens with the payload altered (the signature no longer
\* matches), and strings that are no JWT
JwtTokens(now) ==
    LET issued == {generateToken(u, t) : u \in UserIds, t \in 0..now}
    IN  issued
        \cup {[text |-> <<>>,
               signed |-> <<[k.signed[1] EXCEPT !.userId = u, !.exp = e, !.sigOK = FALSE]>>] :
                 k \in {generateToken(1, 0)}, u \in UserIds, e \in {ExpiresIn, MaxClock + 1}}
        \cup {[text |-> <<>>, signed |-> <<>>], [text |-> <<"x">>, signed |-> <<>>],
               [text |-> <<"x">>, signed |-> generateToken(1, now).signed]}

Verify(token) ==
    /\ jwtRes' = [token |-> token, at |-> clock,
                  threw |-> verifyToken(token, clock).threw,
                  value |-> verifyToken(token, clock).value]
    /\ UNCHANGED <<users, nextId, posts, clock, dbUp, req, res, vRes, gone>>

NextJwt ==
    \/ \E token \in JwtTokens(clock) : Verify(token)
    \/ Tick(1)

SpecJwt == Init /\ [][NextJwt]_vars

--------------------------------------------------------------------------
(* The body validators on their own *)

WideUsernames ==
    {Absent, NotAString}
    \cup {Str("string", Rep("a", n)) :
            n \in {0, MinUsernameLen - 1, MinUsernameLen, MinUsernameLen + 1, MaxUsernameLen}
                  \cup (MaxUsernameLen + 1)..(MaxUsernameLen + ExtraLen)}

WideEmails ==
    {Absent, NotAString}
    \cup {Str("string", e) :
            e \in {<<>>, <<"x">>, ValidEmail,
                   <<"a", ".", "b", "@", "c", ".", "b", ".", "c", "o">>,
                   <<"a", "@", "b">>, <<"a", "@", "b", ".", "c">>,
                   <<"a", "@", "b", ".", "c", "1">>, <<"@", "b", ".", "c", "o">>,
                   <<".", "a", "@", "b", ".", "c", "o">>, <<"a", ".", "@", "b", ".", "c", "o">>,
                   <<"a", ".", ".", "b", "@", "b", ".", "c", "o">>,
                   <<"a", "@", "@", "b", ".", "c", "o">>, <<"a", "@", ".", "c", "o">>,
                   <<"a", " ", "@", "b", ".", "c", "o">>}}

WideBodies == [username : WideUsernames, email : WideEmails]

\* both schemas' safeParse on one request body
Validate(body) ==
    /\ vRes' = [body |-> body, required |-> requiredUserDataSchema(body),
                partial |-> partialUserDataSchema(body)]
    /\ UNCHANGED <<users, nextId, posts, clock, dbUp, req, res, jwtRes, gone>>

NextValidate == \E body \in WideBodies : Validate(body)

SpecValidate == Init /\ [][NextValidate]_vars

--------------------------------------------------------------------------
(* Properties *)

Mutating == {"PUT /users/:id", "PATCH /users/:id", "DELETE /users/:id"}
Guarded == Mutating \cup {"GET /users/:id"}

\* digits only, at least one
DigitsOnly(s) == Len(s) >= 1 /\ \A i \in 1..Len(s) : s[i] \in Digits

\* the request is in, or ended in, the route handler
InHandler == req.route # "" /\ req.stage = Len(Chain(req.route))
HandlerDone == InHandler /\ req.pc = "done"

\* the header is "Bearer " followed by a token that generateToken issued for
\* user u and that has not yet expired
BearerPrefixed(h) == h.present /\ Len(h.text) >= 7 /\ SubSeq(h.text, 1, 7) = Bearer
ValidTokenFor(h, u) ==
    /\ h.present
    /\ h.text = Bearer
    /\ Len(h.signed) = 1
    /\ h.signed[1].sigOK
    /\ h.signed[1].userId = u
    /\ clock < h.signed[1].iat + 24
ValidToken(h) == \E u \in UserIds : ValidTokenFor(h, u)

\* the request ended at chain position k with response r and nothing else done
RejectedAt(k, r) ==
    req.pc = "done" /\ req.stage = k /\ res = r /\ req.storageOps = 0

RowsOf(table, X) == {u \in table : u.id = X}

----
\* C1: on PUT, PATCH and DELETE /users/:id a request that passed authentication
\* and validation is answered 403 "Users can only update their own account"
\* without any storage operation when the token's userId differs from the
\* numeric path id, and goes to storage when they are equal; and a users row
\* with id X changes or disappears only in the handler step of such a request
\* whose token's userId and path id are both X.
C1_HandlerState ==
    (HandlerDone /\ req.route \in Mutating) =>
        IF req.user[1].id # DigitsToNat(req.id)
        THEN res = Json(403, "error", "Users can only update their own account")
             /\ req.storageOps = 0
        ELSE req.storageOps >= 1

C1_RowStep ==
    \A X \in UserIds :
        (RowsOf(users, X) # {} /\ RowsOf(users', X) # RowsOf(users, X)) =>
            /\ req.route \in Mutating
            /\ InHandler /\ req.pc = "run"
            /\ req.user = <<[id |-> X]>>
            /\ DigitsOnly(req.id) /\ DigitsToNat(req.id) = X
            /\ ValidTokenFor(req.header, X)

C1_OwnerOnly == [](C1_HandlerState) /\ [][C1_RowStep]_vars

\* C1 witness: a PATCH of an existing row by another user was answered 403
C1_Witness ==
    /\ HandlerDone /\ req.route = "PATCH /users/:id"
    /\ req.user = <<[id |-> 2]>> /\ req.id = <<"1">>
    /\ RowsOf(users, 1) # {}
    /\ res.status = 403 /\ req.storageOps = 0

----
\* what authenticateToken has done with the request once it has acted: one of
\* four outcomes, chosen by the header; emptyIsAbsent says whether an empty
\* header value counts as an absent header
AuthActed == HasAuth(req.route) /\ (req.stage > 1 \/ (req.stage = 1 /\ req.pc = "done"))

AuthOutcome(emptyIsAbsent) ==
    LET h == req.header
        absent == ~h.present \/ (emptyIsAbsent /\ h.text = <<>> /\ h.signed = <<>>)
    IN  IF absent
        THEN RejectedAt(1, Json(401, "error", "Access token required")) /\ req.user = <<>>
        ELSE IF ~BearerPrefixed(h)
        THEN RejectedAt(1, Json(401, "error", "Token must be in format: Bearer <token>"))
             /\ req.user = <<>>
        ELSE IF ~ValidToken(h)
        THEN RejectedAt(1, Json(403, "error", "Invalid or expired token")) /\ req.user = <<>>
        ELSE /\ req.stage > 1
             /\ Len(req.user) = 1
             /\ ValidTokenFor(h, req.user[1].id)

----
\* C3: verifyToken never throws; for a token generateToken issued for user X it
\* returns the payload with userId = X while the clock is before issue time +
\* 24h and null once the clock is past it; for a malformed or tampered token it
\* returns null.
C3_VerifyToken ==
    LET t == jwtRes.token
        issued == t.text = <<>> /\ Len(t.signed) = 1 /\ t.signed[1].sigOK
    IN  /\ ~jwtRes.threw
        /\ (issued /\ jwtRes.at < t.signed[1].iat + 24) =>
                jwtRes.value = <<[userId |-> t.signed[1].userId]>>
        /\ (issued /\ jwtRes.at > t.signed[1].iat + 24) => jwtRes.value = null
        /\ ~issued => jwtRes.value = null

\* C3 witness: a token issued for user 2 was verified after its expiry
C3_Witness ==
    /\ jwtRes.token.text = <<>> /\ Len(jwtRes.token.signed) = 1
    /\ jwtRes.token.signed[1].sigOK /\ jwtRes.token.signed[1].userId = 2
    /\ jwtRes.at > jwtRes.token.signed[1].iat + 24
    /\ jwtRes.value = null

----
\* position of validateUserId in the route's chain
IdStage == IF req.route = "GET /users/:id" THEN 1 ELSE 2

\* C4: on GET, PUT, PATCH and DELETE /users/:id validateUserId calls next
\* exactly when the id consists of digits only (at least one); for every other
\* id it responds 400 {error: "Validation failed", details} and neither the
\* handler nor storage is reached.
C4_ValidateUserId ==
    (req.route \in Guarded
       /\ (req.stage > IdStage \/ (req.stage = IdStage /\ req.pc = "done"))) =>
        IF DigitsOnly(req.id)
        THEN req.stage > IdStage
        ELSE /\ req.pc = "done" /\ req.stage = IdStage
             /\ res.status = 400 /\ res.key = "error" /\ res.text = "Validation failed"
             /\ Len(res.details) >= 1
             /\ req.storageOps = 0

\* C4 witness: DELETE /users/1.5 with a valid token was answered 400
C4_Witness ==
    /\ req.route = "DELETE /users/:id" /\ req.id = <<"1", ".", "5">>
    /\ req.pc = "done" /\ req.stage = 2 /\ res.status = 400

----
\* the handler step of a request on route r whose token's user is the path id
OwnerStep(r) ==
    /\ req.route = r /\ InHandler /\ req.pc = "run" /\ req'.pc = "done"
    /\ Len(req.user) = 1 /\ DigitsOnly(req.id) /\ req.user[1].id = DigitsToNat(req.id)

\* C5: DELETE /users/:id by the owner returns 204 and removes the row when it
\* exists, and returns 404 with the table unchanged when it does not.  So after
\* a successful DELETE of an id, an owner's DELETE and a GET of that id return
\* 404.
C5_DeleteStep ==
    OwnerStep("DELETE /users/:id") =>
        LET X == DigitsToNat(req.id)
        IN  IF RowsOf(users, X) # {}
            THEN res'.status = 204 /\ users' = users \ RowsOf(users, X)
            ELSE res'.status = 404 /\ users' = users

C5_AfterDeleteStep ==
    (/\ req.route \in {"GET /users/:id", "DELETE /users/:id"}
     /\ InHandler /\ req.pc = "run" /\ req'.pc = "done"
     /\ DigitsToNat(req.id) \in gone
     /\ req.route = "DELETE /users/:id" => req.user[1].id = DigitsToNat(req.id)) =>
        res'.status = 404 /\ users' = users

C5_Delete == [][C5_DeleteStep /\ C5_AfterDeleteStep]_vars

\* C5 witness: a second DELETE by the owner of an id already deleted got 404
C5_Witness ==
    /\ HandlerDone /\ req.route = "DELETE /users/:id"
    /\ req.user = <<[id |-> 1]>> /\ DigitsToNat(req.id) = 1
    /\ 1 \in gone /\ res.status = 404

----
\* C6 as claimed: whenever a storage operation fails, the failure is caught in
\* the handler and the request ends with the handler's 500 response.
C6_AsClaimed ==
    req.threw => (req.pc = "done" /\ res.status = 500 /\ res.key \in {"message", "error"})

----
\* C7 as claimed: the objects returned by POST /users, GET /users, GET
\* /users/:id, PUT /users/:id and PATCH /users/:id for a row that has a
\* password value hold only id, username and email.
C7_AsClaimed ==
    \A o \in res.rows :
        (\E u \in users : u.id = o.id /\ u.password # NULL) =>
            DOMAIN o = {"id", "username", "email"}

----
\* C8 as claimed: validatePartialUserData rejects exactly the payloads in which
\* a present username is not a string of 2 to 50 characters or a present email
\* is not a syntactically valid email: the rules of validateRequiredUserData,
\* applied to the fields that are present.
C8_AsClaimed ==
    LET b == vRes.body
        UsernameOk == b.username.kind = "string" /\ Len(b.username.val) \in 2..50
        EmailOk == b.email.kind = "string" /\ isEmail(b.email.val)
    IN  /\ (vRes.required = <<>>) <=> (UsernameOk /\ EmailOk)
        /\ (vRes.partial = <<>>) <=>
              /\ b.username.kind # "absent" => UsernameOk
              /\ b.email.kind # "absent" => EmailOk

----
\* the request's payload satisfies the full-payload rules
FullPayloadOk ==
    /\ req.body.username.kind = "string" /\ Len(req.body.username.val) \in 2..50
    /\ req.body.email.kind = "string" /\ isEmail(req.body.email.val)

\* C9: PUT /users/:id answers by the first failing stage of authenticate ->
\* validate id -> validate payload -> authorize: 401/403 without a valid token,
\* whatever the id and payload; else 400 for a malformed id or payload,
\* whoever the token's user is; else the ownership 403; storage is touched only
\* when all four pass, and then the answer is 404 when no row has the id, else
\* 200 with {id, username, email} of the request (and the row holds them).
C9_PutState ==
    (req.route = "PUT /users/:id" /\ req.pc = "done") =>
        IF ~ValidToken(req.header)
        THEN /\ req.stage = 1 /\ res.status \in {401, 403} /\ req.storageOps = 0
             /\ res.text # "Users can only update their own account"
        ELSE IF ~DigitsOnly(req.id) \/ ~FullPayloadOk
        THEN res.status = 400 /\ req.storageOps = 0
        ELSE IF ~ValidTokenFor(req.header, DigitsToNat(req.id))
        THEN /\ res = Json(403, "error", "Users can only update their own account")
             /\ req.storageOps = 0
        ELSE /\ req.storageOps = 1
             /\ res.status \in {200, 404}
             /\ res.status = 200 =>
                   res.rows = {[id |-> DigitsToNat(req.id),
                                username |-> req.body.username.val,
                                email |-> req.body.email.val]}

C9_PutStep ==
    OwnerStep("PUT /users/:id") =>
        LET X == DigitsToNat(req.id)
        IN  IF RowsOf(users, X) = {}
            THEN res'.status = 404 /\ users' = users
            ELSE /\ res'.status = 200
                 /\ \A u \in RowsOf(users', X) :
                        u.username = req.body.username.val /\ u.email = req.body.email.val
                 /\ \A Y \in UserIds \ {X} : RowsOf(users', Y) = RowsOf(users, Y)

C9_PutOrder == [](C9_PutState) /\ [][C9_PutStep]_vars

\* C9 witness: a PUT with another user's valid token and a malformed id got 400
C9_Witness ==
    /\ req.route = "PUT /users/:id" /\ req.pc = "done"
    /\ ValidTokenFor(req.header, 2) /\ req.id = <<"-", "1">>
    /\ res.status = 400

----
\* C10 as claimed: a PATCH /users/:id by the owner with neither username nor
\* email in the payload passes the partial validator and ends without an error
\* response (no 400, no 500).
C10_AsClaimed ==
    (req.route = "PATCH /users/:id" /\ req.pc = "done" /\ req.body = NoBody
       /\ ValidToken(req.header) /\ DigitsOnly(req.id)
       /\ ValidTokenFor(req.header, DigitsToNat(req.id))) =>
        res.status \notin {400, 500}

----
Listing == {"GET /users/:id/posts", "GET /users/:id/posts-with-user", "GET /posts"}

\* C11 as claimed: GET /users/:id/posts, GET /users/:id/posts-with-user and GET
\* /posts return their posts ordered by creation timestamp descending, and
\* none of them modifies storage.
C11_Ordered ==
    (req.route \in Listing /\ req.pc = "done" /\ res.status = 200) =>
        \A i, j \in 1..Len(res.list) :
            i < j => res.list[i].created_at >= res.list[j].created_at

C11_ReadOnlyStep ==
    (req.route \in Listing /\ req.pc = "run") => (users' = users /\ posts' = posts)

C11_AsClaimed == [](C11_Ordered) /\ [][C11_ReadOnlyStep]_vars

====
